---- MODULE Spec2Model ----
(***************************************************************************)
(* Model of the segmentation data pipeline (src/segmentation/data.py) and  *)
(* of the focal loss (src/segmentation/loss.py).                           *)
(*                                                                         *)
(* Tensors and pixel grids are functions over a flattened pixel index      *)
(* 1..NumPixels (row-major H x W); every operation of the adapters is      *)
(* element-wise, so the flattening loses nothing.  uint8 tensors keep      *)
(* their width (values are reduced modulo 256 where the code stores them). *)
(***************************************************************************)
EXTENDS Integers, Sequences, FiniteSets, TLC

VARIABLES
    adapter,        \* which BaseSet subclass the object is: "coco", "ade", "fine"
    train,          \* BaseSet.__init__'s train flag (self.mode)
    classes,        \* self.p.classes, the allow-list of class names
    coco,           \* self.coco: [cats, imgs, imgToAnns] (pycocotools index)
    disk,           \* on-disk metadata and annotation images read by the adapter
    class_map,      \* self.class_map (COCO: dict; ADE: map_dict behind map_func)
    img_ids,        \* COCODataset.img_ids
    img_path_list,  \* ADE20KDataset / FineGrainedADE20KDataset .img_path_list
    seg_path_list,  \* ADE20KDataset / FineGrainedADE20KDataset .seg_path_list
    scenario_list,  \* ADE20KDataset.scenario_list
    dataset_size,   \* ADE20KDataset / FineGrainedADE20KDataset .dataset_size
    phase,          \* "new" before the constructor ran, "ready" after
    ret,            \* what the last call returned or raised
    data_dict,      \* SegEncoder.__call__ argument
    enc_data,       \* SegEncoder.__call__ result
    output,         \* FocalLoss.forward argument
    target,         \* FocalLoss.forward argument
    inv_mask,       \* FocalLoss.forward argument
    loss            \* FocalLoss.forward result

varsData == <<adapter, train, classes, coco, disk, class_map, img_ids,
              img_path_list, seg_path_list, scenario_list, dataset_size, phase,
              ret>>
varsEnc  == <<data_dict, enc_data>>
varsLoss == <<output, target, inv_mask, loss>>
vars     == <<varsData, varsEnc, varsLoss>>

(***************************************************************************)
(* Bounds of the model.                                                    *)
(***************************************************************************)
NumPixels == 2      \* pixels of an image (H*W)
MaxAnns   == 2      \* annotations on the annotated image

(***************************************************************************)
(* Program constants.                                                      *)
(***************************************************************************)
min_area == 200     \* COCODataset.DEFAULT_PARAMS.min_area
UInt8    == 256     \* width of torch.uint8 / np.uint8

Pixels == 1..NumPixels

Max(a, b) == IF a >= b THEN a ELSE b

RECURSIVE SeqSum(_)
SeqSum(s) == IF s = <<>> THEN 0 ELSE Head(s) + SeqSum(Tail(s))

\* torch.bitwise_and on uint8 values, bit by bit.
RECURSIVE AndBits(_, _, _)
AndBits(a, b, n) ==
    IF n = 0 THEN 0
    ELSE (a % 2) * (b % 2) + 2 * AndBits(a \div 2, b \div 2, n - 1)

bitwise_and(a, b) == AndBits(a, b, 8)

\* torch.bitwise_not on a uint8 value: every bit flipped.
bitwise_not(a) == (UInt8 - 1) - a

\* Faulty variant: an index check that takes only the keys of [0, len).
InRange_nonneg(lst, key) == 0 <= key /\ key < Len(lst)

\* Python list indexing lst[key]: negative keys count from the end.
InRange(lst, key) == -Len(lst) <= key /\ key < Len(lst)

ListGet(lst, key) ==
    IF key >= 0 THEN lst[key + 1] ELSE lst[Len(lst) + key + 1]

EmptyMap == [x \in {} |-> 0]

NoData == [image |-> [src |-> <<>>, ops |-> <<>>], seg_mask |-> <<>>, loss_mask |-> <<>>]

NoRet == [op |-> "none", key |-> 0, outcome |-> "none", data |-> NoData,
          trace |-> <<>>, crop |-> NoData, aug |-> NoData, enc |-> <<>>,
          value |-> 0]


DictPut(m, k, v) == [x \in (DOMAIN m) \cup {k} |-> IF x = k THEN v ELSE m[x]]

Raise(op, key, err) == [NoRet EXCEPT !.op = op, !.key = key, !.outcome = err]

(***************************************************************************)
(* COCODataset (polygon adapter).                                          *)
(***************************************************************************)

\* The loop of _generate_class_map over self.coco.cats.items(), in dict order.
RECURSIVE COCO_class_map_loop(_, _, _, _)
COCO_class_map_loop(cats, cls, idx, mapping) ==
    IF cats = <<>> THEN mapping
    ELSE LET cat == Head(cats) IN
         IF cat.name \in cls
         THEN COCO_class_map_loop(Tail(cats), cls, idx + 1, DictPut(mapping, cat.id, idx))
         ELSE COCO_class_map_loop(Tail(cats), cls, idx, mapping)

COCODataset_generate_class_map(cats, cls) ==
    COCO_class_map_loop(cats, cls, 1, EmptyMap)

\* Image.open(img_fpath).convert('RGB'): the image is kept as its source and
\* the list of transforms applied to it.
COCODataset_get_img(img_id) == [src |-> img_id, ops |-> <<"open", "RGB">>]

\* Faulty variant: the validity mask is overwritten from the region, not ANDed.
ExcludeRegion_overwrite(loss_mask, ann_mask) ==
    [p \in Pixels |-> bitwise_and(1, bitwise_not(ann_mask[p]))]

\* loss_mask = torch.bitwise_and(loss_mask, torch.bitwise_not(ann_mask))
ExcludeRegion(loss_mask, ann_mask) ==
    [p \in Pixels |-> bitwise_and(loss_mask[p], bitwise_not(ann_mask[p]))]

\* Faulty variant: the region is painted over whatever the pixel held.
PaintRegion_overwrite(seg_mask, ann_mask, class_id) ==
    [p \in Pixels |-> IF ann_mask[p] = 1 THEN class_id % UInt8 ELSE seg_mask[p]]

\* seg_mask = torch.max(seg_mask, ann_mask*class_id), in uint8
PaintRegion(seg_mask, ann_mask, class_id) ==
    [p \in Pixels |-> Max(seg_mask[p], (ann_mask[p] * class_id) % UInt8)]

\* One iteration of "for ann in annotations"; ann.mask is coco.annToMask(ann).
AnnStep(st, ann, cm) ==
    IF ann.iscrowd = 1 \/ ann.area < min_area
    THEN [st EXCEPT !.loss_mask = ExcludeRegion(st.loss_mask, ann.mask)]
    ELSE IF ann.category_id \in DOMAIN cm
    THEN [st EXCEPT !.seg_mask = PaintRegion(st.seg_mask, ann.mask, cm[ann.category_id])]
    ELSE st

\* The whole loop; the result lists the masks before the loop and after
\* every iteration.
RECURSIVE AnnLoop(_, _, _)
AnnLoop(anns, cm, trace) ==
    IF anns = <<>> THEN trace
    ELSE AnnLoop(Tail(anns), cm,
                 Append(trace, AnnStep(trace[Len(trace)], Head(anns), cm)))

\* self.coco.imgToAnns[img_id]: a defaultdict(list), so a missing key reads
\* as the empty list.
ImgToAnns(c, img_id) ==
    IF img_id \in DOMAIN c.imgToAnns THEN c.imgToAnns[img_id] ELSE <<>>

\* ... and the read inserts the missing key.
ImgToAnnsTouched(c, img_id) ==
    [c EXCEPT !.imgToAnns = DictPut(c.imgToAnns, img_id, ImgToAnns(c, img_id))]

COCO_raw(key) ==
    IF ~InRange(img_ids, key) THEN Raise("get_raw_data", key, "IndexError")
    ELSE LET img_id == ListGet(img_ids, key)
             annotations == ImgToAnns(coco, img_id)
             start == [seg_mask  |-> [p \in Pixels |-> 0],
                       loss_mask |-> [p \in Pixels |-> 1]]
             trace == AnnLoop(annotations, class_map, <<start>>)
             final == trace[Len(trace)]
         IN [NoRet EXCEPT !.op = "get_raw_data", !.key = key, !.outcome = "ok",
                          !.data = [image     |-> COCODataset_get_img(img_id),
                                    seg_mask  |-> final.seg_mask,
                                    loss_mask |-> final.loss_mask],
                          !.trace = trace]

COCO_store(key) ==
    IF ~InRange(img_ids, key) THEN coco
    ELSE ImgToAnnsTouched(coco, ListGet(img_ids, key))

\* Faulty variant: get_raw_data consumes the image id it served.
COCODataset_get_raw_data_pop(key) ==
    /\ adapter = "coco" /\ phase = "ready"
    /\ ret' = COCO_raw(key)
    /\ coco' = COCO_store(key)
    /\ img_ids' = IF InRange(img_ids, key) THEN Tail(img_ids) ELSE img_ids
    /\ UNCHANGED <<adapter, train, classes, disk, class_map,
                   img_path_list, seg_path_list, scenario_list, dataset_size, phase>>
    /\ UNCHANGED <<varsEnc, varsLoss>>

COCODataset_get_raw_data(key) ==
    /\ adapter = "coco" /\ phase = "ready"
    /\ ret' = COCO_raw(key)
    /\ coco' = COCO_store(key)
    /\ UNCHANGED <<adapter, train, classes, disk, class_map, img_ids,
                   img_path_list, seg_path_list, scenario_list, dataset_size, phase>>
    /\ UNCHANGED <<varsEnc, varsLoss>>

COCODataset_len ==
    /\ adapter = "coco" /\ phase = "ready"
    /\ ret' = [NoRet EXCEPT !.op = "len", !.outcome = "ok", !.value = Len(coco.imgs)]
    /\ UNCHANGED <<adapter, train, classes, coco, disk, class_map, img_ids,
                   img_path_list, seg_path_list, scenario_list, dataset_size, phase>>
    /\ UNCHANGED <<varsEnc, varsLoss>>

\* COCODataset.__init__: the fields it sets from the loaded annotation store.
COCODataset_init(store, cls) ==
    [img_ids       |-> store.imgs,
     class_map     |-> COCODataset_generate_class_map(store.cats, cls),
     img_path_list |-> <<>>, seg_path_list |-> <<>>, scenario_list |-> <<>>,
     dataset_size  |-> 0]

(***************************************************************************)
(* ADE20KDataset (flat-file adapter).                                      *)
(***************************************************************************)

\* "tok" in name: file names are kept as their sequence of tokens.
Contains(name, tok) == \E i \in 1..Len(name) : name[i] = tok

ImgDir(tr) == IF tr THEN "images/training" ELSE "images/validation"
SegDir(tr) == IF tr THEN "annotations/training" ELSE "annotations/validation"

\* The loop of ADE20KDataset.__init__ over the lines of sceneCategories.txt.
RECURSIVE ADE_index_loop(_, _, _)
ADE_index_loop(anno_content, tr, acc) ==
    IF anno_content = <<>> THEN acc
    ELSE LET line == Head(anno_content)
             img_name == line[1]
             scene_name == line[2]
             rest == Tail(anno_content)
         IN IF tr /\ Contains(img_name, "val") THEN ADE_index_loop(rest, tr, acc)
            ELSE IF ~tr /\ Contains(img_name, "train") THEN ADE_index_loop(rest, tr, acc)
            ELSE ADE_index_loop(rest, tr,
                   [img_path_list |-> Append(acc.img_path_list,
                        [dir |-> ImgDir(tr), name |-> img_name, ext |-> ".jpg"]),
                    seg_path_list |-> Append(acc.seg_path_list,
                        [dir |-> SegDir(tr), name |-> img_name, ext |-> ".png"]),
                    scenario_list |-> Append(acc.scenario_list, scene_name)])

\* The loop of _generate_class_map over class_name_list (0-based i).
RECURSIVE ADE_class_map_loop(_, _, _, _, _)
ADE_class_map_loop(class_name_list, cls, i, cur_idx, map_dict) ==
    IF i >= Len(class_name_list) THEN map_dict
    ELSE IF class_name_list[i + 1] \in cls
    THEN ADE_class_map_loop(class_name_list, cls, i + 1, cur_idx + 1,
                            DictPut(map_dict, i + 1, cur_idx))
    ELSE ADE_class_map_loop(class_name_list, cls, i + 1, cur_idx, map_dict)

\* class_desc holds the lines of objectInfo150.txt, each split at the tabs;
\* the first is the header and the last field of a line is the class name.
ClassNameList(class_desc) ==
    LET rows == Tail(class_desc)
    IN [i \in 1..Len(rows) |-> rows[i][Len(rows[i])]]

\* Faulty variant: cur_idx starts at 0.
ADE20KDataset_generate_class_map_from0(class_desc, cls) ==
    ADE_class_map_loop(ClassNameList(class_desc), cls, 0, 0, EmptyMap)

ADE20KDataset_generate_class_map(class_desc, cls) ==
    ADE_class_map_loop(ClassNameList(class_desc), cls, 0, 1, EmptyMap)

\* map_func, the closure np.vectorize applies to every pixel.
map_func(map_dict, elem) == IF elem \in DOMAIN map_dict THEN map_dict[elem] ELSE 0

\* ADE20KDataset.__init__
ADE20KDataset_init(d, cls, tr) ==
    LET idx == ADE_index_loop(d.anno_content, tr,
                 [img_path_list |-> <<>>, seg_path_list |-> <<>>, scenario_list |-> <<>>])
    IN [img_ids       |-> <<>>,
        class_map     |-> ADE20KDataset_generate_class_map(d.class_desc, cls),
        img_path_list |-> idx.img_path_list,
        seg_path_list |-> idx.seg_path_list,
        scenario_list |-> idx.scenario_list,
        dataset_size  |-> Len(idx.img_path_list)]

OpenImage(path) == [src |-> path, ops |-> <<"open", "RGB">>]

ADE_raw(key) ==
    IF ~InRange(img_path_list, key) THEN Raise("get_raw_data", key, "IndexError")
    ELSE LET img_path == ListGet(img_path_list, key)
             seg_path == ListGet(seg_path_list, key)
             png == disk.seg[seg_path]
             seg_mask == [p \in Pixels |-> map_func(class_map, png[p] % UInt8) % UInt8]
         IN [NoRet EXCEPT !.op = "get_raw_data", !.key = key, !.outcome = "ok",
                          !.data = [image     |-> OpenImage(img_path),
                                    seg_mask  |-> seg_mask,
                                    loss_mask |-> [p \in Pixels |-> 1]]]

ADE20KDataset_get_raw_data(key) ==
    /\ adapter = "ade" /\ phase = "ready"
    /\ ret' = ADE_raw(key)
    /\ UNCHANGED <<adapter, train, classes, coco, disk, class_map, img_ids,
                   img_path_list, seg_path_list, scenario_list, dataset_size, phase>>
    /\ UNCHANGED <<varsEnc, varsLoss>>

ADE20KDataset_len ==
    /\ adapter = "ade" /\ phase = "ready"
    /\ ret' = [NoRet EXCEPT !.op = "len", !.outcome = "ok", !.value = dataset_size]
    /\ UNCHANGED <<adapter, train, classes, coco, disk, class_map, img_ids,
                   img_path_list, seg_path_list, scenario_list, dataset_size, phase>>
    /\ UNCHANGED <<varsEnc, varsLoss>>

(***************************************************************************)
(* FineGrainedADE20KDataset (packed-color adapter).                        *)
(***************************************************************************)

\* get_seg_path: img_path[:-4] + '_seg.png' (the file name ends in a
\* four-character extension, kept apart as the ext field).
get_seg_path(img_path) == [img_path EXCEPT !.ext = "_seg.png"]

\* The loop of __init__ over the entries of the index (ds['filename'],
\* ds['folder']).
RECURSIVE Fine_index_loop(_, _, _)
Fine_index_loop(index, img_set_mark, acc) ==
    IF index = <<>> THEN acc
    ELSE LET e == Head(index) IN
         IF Contains(e.filename.name, img_set_mark)
         THEN LET img_path == [dir |-> e.folder, name |-> e.filename.name,
                               ext |-> e.filename.ext]
              IN Fine_index_loop(Tail(index), img_set_mark,
                   [img_path_list |-> Append(acc.img_path_list, img_path),
                    seg_path_list |-> Append(acc.seg_path_list, get_seg_path(img_path))])
         ELSE Fine_index_loop(Tail(index), img_set_mark, acc)

\* FineGrainedADE20KDataset.__init__ (it sets no class_map).
FineGrainedADE20KDataset_init(d, tr) ==
    LET idx == Fine_index_loop(d.index, IF tr THEN "train" ELSE "val",
                 [img_path_list |-> <<>>, seg_path_list |-> <<>>])
    IN [img_ids       |-> <<>>,
        class_map     |-> EmptyMap,
        img_path_list |-> idx.img_path_list,
        seg_path_list |-> idx.seg_path_list,
        scenario_list |-> <<>>,
        dataset_size  |-> Len(idx.img_path_list)]

\* cat_map = (seg_img[:,:,0] // 10).astype(int) * 256 + seg_img[:,:,1]
DecodePacked(px) == ((px[1] % UInt8) \div 10) * 256 + (px[2] % UInt8)

Fine_raw(key) ==
    IF ~InRange(img_path_list, key) THEN Raise("get_raw_data", key, "IndexError")
    ELSE LET img_path == ListGet(img_path_list, key)
             seg_path == ListGet(seg_path_list, key)
             seg_img == disk.seg[seg_path]
         IN [NoRet EXCEPT !.op = "get_raw_data", !.key = key, !.outcome = "ok",
                          !.data = [image     |-> OpenImage(img_path),
                                    seg_mask  |-> [p \in Pixels |-> DecodePacked(seg_img[p])],
                                    loss_mask |-> [p \in Pixels |-> 1]]]

FineGrainedADE20KDataset_get_raw_data(key) ==
    /\ adapter = "fine" /\ phase = "ready"
    /\ ret' = Fine_raw(key)
    /\ UNCHANGED <<adapter, train, classes, coco, disk, class_map, img_ids,
                   img_path_list, seg_path_list, scenario_list, dataset_size, phase>>
    /\ UNCHANGED <<varsEnc, varsLoss>>

FineGrainedADE20KDataset_len ==
    /\ adapter = "fine" /\ phase = "ready"
    /\ ret' = [NoRet EXCEPT !.op = "len", !.outcome = "ok", !.value = dataset_size]
    /\ UNCHANGED <<adapter, train, classes, coco, disk, class_map, img_ids,
                   img_path_list, seg_path_list, scenario_list, dataset_size, phase>>
    /\ UNCHANGED <<varsEnc, varsLoss>>

(***************************************************************************)
(* SegEncoder.  A PIL image is [size |-> <<width, height>>, bands, bytes]  *)
(* with bytes what tobytes() returns: row-major, bands interleaved.        *)
(***************************************************************************)

\* pil_to_tensor: view(height, width, bands) of the bytes, then
\* permute((2, 0, 1)): the result is indexed [band][row][column].
pil_to_tensor(pil_img) ==
    LET w == pil_img.size[1]
        h == pil_img.size[2]
        b == pil_img.bands
    IN [c \in 1..b |-> [y \in 1..h |-> [x \in 1..w |->
            pil_img.bytes[((y - 1) * w + (x - 1)) * b + c]]]]

\* Faulty variant: the class ids start at 0 (torch.arange(num_classes)).
catgory_to_onehot_from0(num_classes, cat_map_pil) ==
    LET cat_map_1hw == pil_to_tensor(cat_map_pil)
    IN [n \in 1..num_classes |->
         [y \in 1..cat_map_pil.size[2] |-> [x \in 1..cat_map_pil.size[1] |->
            IF (n - 1) % UInt8 = cat_map_1hw[1][y][x] THEN 1 ELSE 0]]]

\* catgory_to_onehot: cat_ids_n11 == cat_map_1hw, broadcast to (n, h, w).
\* torch.arange(1, num_classes+1) in the byte dtype of the map.
catgory_to_onehot(num_classes, cat_map_pil) ==
    LET cat_map_1hw == pil_to_tensor(cat_map_pil)
        cat_ids_n == [n \in 1..num_classes |-> n % UInt8]
    IN [n \in 1..num_classes |->
         [y \in 1..cat_map_pil.size[2] |-> [x \in 1..cat_map_pil.size[1] |->
            IF cat_ids_n[n] = cat_map_1hw[1][y][x] THEN 1 ELSE 0]]]

\* SegEncoder.__call__
SegEncoder_call(num_classes, dd) ==
    [image_b3hw     |-> dd.image,
     seg_mask_bnhw  |-> catgory_to_onehot(num_classes, dd.seg_mask),
     loss_mask_bnhw |-> pil_to_tensor(dd.loss_mask)]

(***************************************************************************)
(* BaseSet.__getitem__.                                                    *)
(***************************************************************************)

\* The crops keep a window of CropW pixels.  They are applied identically
\* to the image, the class grid and the validity grid; the grids come out
\* as single-band byte images.
CropW == NumPixels - 1

CropOffsets(tr) == IF tr THEN 0..(NumPixels - CropW) ELSE {(NumPixels - CropW) \div 2}

CropGrid(grid, off) ==
    [size |-> <<CropW, 1>>, bands |-> 1,
     bytes |-> [i \in 1..CropW |-> grid[i + off] % UInt8]]

\* self.multi_crop: MultiRandomAffineCrop (train) / MultiCenterAffineCrop.
multi_crop(raw_data, off) ==
    [image     |-> [raw_data.image EXCEPT !.ops = Append(@, "crop")],
     seg_mask  |-> CropGrid(raw_data.seg_mask, off),
     loss_mask |-> CropGrid(raw_data.loss_mask, off)]

\* self.img_augmentor: ImageAugmentor (train) / torchvision ToTensor.
\* self.color_jitter is built by __init__ and is not called here.
img_augmentor(tr, image) ==
    [image EXCEPT !.ops = Append(@, IF tr THEN "ImageAugmentor" ELSE "ToTensor")]

RawData(key) ==
    CASE adapter = "coco" -> COCO_raw(key)
      [] adapter = "ade"  -> ADE_raw(key)
      [] adapter = "fine" -> Fine_raw(key)

BaseSet_getitem(key, off) ==
    /\ phase = "ready"
    /\ adapter \in {"coco", "ade", "fine"}
    /\ LET raw == RawData(key) IN
         IF raw.outcome # "ok" THEN ret' = [raw EXCEPT !.op = "sample"]
         ELSE LET crop_data == multi_crop(raw.data, off)
                  aug_data == [crop_data EXCEPT
                                 !.image = img_augmentor(train, crop_data.image)]
                  enc == SegEncoder_call(Cardinality(classes), aug_data)
              IN ret' = [raw EXCEPT !.op = "sample", !.crop = crop_data,
                                    !.aug = aug_data, !.enc = enc]
    /\ coco' = IF adapter = "coco" THEN COCO_store(key) ELSE coco
    /\ UNCHANGED <<adapter, train, classes, disk, class_map, img_ids,
                   img_path_list, seg_path_list, scenario_list, dataset_size, phase>>
    /\ UNCHANGED <<varsEnc, varsLoss>>

\* len(self) of whichever adapter the object is.
Length ==
    IF adapter = "coco" THEN Len(coco.imgs) ELSE dataset_size

(***************************************************************************)
(* Inputs of the adapters.                                                 *)
(***************************************************************************)
CocoCats == <<[id |-> 1,  name |-> "person"], [id |-> 44, name |-> "bottle"],
              [id |-> 47, name |-> "cup"],    [id |-> 48, name |-> "fork"],
              [id |-> 49, name |-> "knife"],  [id |-> 50, name |-> "spoon"]>>

CocoClasses == {"bottle", "cup", "fork", "knife", "spoon", "bowl"}

CocoImgs == <<11, 22>>

\* Rasterized regions: the runs of consecutive pixels.
Regions ==
    { [p \in Pixels |-> IF a <= p /\ p <= b THEN 1 ELSE 0] :
        a \in Pixels, b \in Pixels } \ { [p \in Pixels |-> 0] }

\* iscrowd / reported area / category of an annotation.
AnnKinds == { [iscrowd |-> 1, area |-> min_area,     category_id |-> 47],
              [iscrowd |-> 0, area |-> min_area - 1, category_id |-> 50],
              [iscrowd |-> 0, area |-> min_area,     category_id |-> 47],
              [iscrowd |-> 0, area |-> min_area,     category_id |-> 50],
              [iscrowd |-> 0, area |-> min_area,     category_id |-> 1] }

Anns == { [iscrowd |-> k.iscrowd, area |-> k.area, category_id |-> k.category_id,
           mask |-> m] : k \in AnnKinds, m \in Regions }

AnnLists == UNION { [1..n -> Anns] : n \in 0..MaxAnns }

CocoStore(cats, anns) ==
    [cats |-> cats, imgs |-> CocoImgs,
     imgToAnns |-> IF anns = <<>> THEN EmptyMap ELSE DictPut(EmptyMap, CocoImgs[1], anns)]

NoCoco == [cats |-> <<>>, imgs |-> <<>>, imgToAnns |-> EmptyMap]

NoDisk == [anno_content |-> <<>>, class_desc |-> <<>>, index |-> <<>>, seg |-> <<>>]

AdeManifest == << << <<"ADE", "train", "1">>, "bedroom" >>,
                  << <<"ADE", "val", "1">>,   "kitchen" >>,
                  << <<"ADE", "train", "2">>, "office" >> >>

AdeHeader == <<"Idx", "Ratio", "Train", "Val", "Stuff", "Name">>

AdeRow(i, name) == <<i, "r", "t", "v", "s", name>>

AdeClassDesc == <<AdeHeader, AdeRow(1, "wall"), AdeRow(2, "building, edifice"),
                  AdeRow(3, "sky"), AdeRow(4, "floor, flooring")>>

AdeClasses == {"wall", "floor, flooring", "ceiling"}

\* Every annotation image the manifest can name, all holding the grid g.
AdeSegFiles(anno_content, g) ==
    [path \in { [dir |-> SegDir(tr), name |-> anno_content[i][1], ext |-> ".png"] :
                  tr \in BOOLEAN, i \in 1..Len(anno_content) } |-> g]

AdeDisk(class_desc, g) ==
    [anno_content |-> AdeManifest, class_desc |-> class_desc, index |-> <<>>,
     seg |-> AdeSegFiles(AdeManifest, g)]

AdeGrids == [Pixels -> 0..Len(AdeClassDesc)]

FineIndex ==
    << [filename |-> [name |-> <<"ADE", "train", "1">>, ext |-> ".jpg"],
        folder |-> "images/training/b/bedroom"],
       [filename |-> [name |-> <<"ADE", "train", "2">>, ext |-> ".jpg"],
        folder |-> "images/training/k/kitchen"],
       [filename |-> [name |-> <<"ADE", "val", "1">>, ext |-> ".jpg"],
        folder |-> "images/validation/o/office"] >>

FineClasses == {"bottle", "cup"}

FineDisk(g) ==
    [anno_content |-> <<>>, class_desc |-> <<>>, index |-> FineIndex,
     seg |-> [path \in { get_seg_path([dir |-> FineIndex[i].folder,
                                       name |-> FineIndex[i].filename.name,
                                       ext |-> FineIndex[i].filename.ext]) :
                           i \in 1..Len(FineIndex) } |-> g]]

\* Packed pixels: <<R, G, B>> bytes.
FinePixels == { <<r, g, 0>> : r \in {0, 10, 20}, g \in {0, 1, 5} }

FineGrids == [Pixels -> FinePixels]

NoEnc == [image_b3hw |-> <<>>, seg_mask_bnhw |-> <<>>, loss_mask_bnhw |-> <<>>]

NoLoss == [outcome |-> "none", value |-> [k |-> "fin", n |-> 0, d |-> 1]]

IdleEnc  == data_dict = NoData /\ enc_data = NoEnc
IdleLoss == output = <<>> /\ target = <<>> /\ inv_mask = <<>> /\ loss = NoLoss

\* The object's fields as the constructor f left them.
Constructed(f) ==
    /\ img_ids = f.img_ids /\ class_map = f.class_map
    /\ img_path_list = f.img_path_list /\ seg_path_list = f.seg_path_list
    /\ scenario_list = f.scenario_list /\ dataset_size = f.dataset_size
    /\ phase = "ready" /\ ret = NoRet

InitCoco(anns, tr) ==
    /\ adapter = "coco" /\ train = tr /\ classes = CocoClasses
    /\ coco = CocoStore(CocoCats, anns) /\ disk = NoDisk
    /\ Constructed(COCODataset_init(CocoStore(CocoCats, anns), CocoClasses))

InitAde(g, tr) ==
    /\ adapter = "ade" /\ train = tr /\ classes = AdeClasses
    /\ coco = NoCoco /\ disk = AdeDisk(AdeClassDesc, g)
    /\ Constructed(ADE20KDataset_init(AdeDisk(AdeClassDesc, g), AdeClasses, tr))

InitFine(g, tr) ==
    /\ adapter = "fine" /\ train = tr /\ classes = FineClasses
    /\ coco = NoCoco /\ disk = FineDisk(g)
    /\ Constructed(FineGrainedADE20KDataset_init(FineDisk(g), tr))

KeysOf(n) == (-(n + 1))..n

(***************************************************************************)
(* Spec: the three adapters behind BaseSet, after construction.            *)
(***************************************************************************)
Init ==
    /\ \/ \E anns \in {l \in AnnLists : Len(l) <= 1}, tr \in BOOLEAN : InitCoco(anns, tr)
       \/ \E g \in AdeGrids, tr \in BOOLEAN : InitAde(g, tr)
       \/ \E g \in FineGrids, tr \in BOOLEAN : InitFine(g, tr)
    /\ IdleEnc /\ IdleLoss

Next ==
    \/ \E key \in KeysOf(Length) : COCODataset_get_raw_data(key)
    \/ \E key \in KeysOf(Length) : ADE20KDataset_get_raw_data(key)
    \/ \E key \in KeysOf(Length) : FineGrainedADE20KDataset_get_raw_data(key)
    \/ COCODataset_len
    \/ ADE20KDataset_len
    \/ FineGrainedADE20KDataset_len
    \/ \E key \in KeysOf(Length), off \in CropOffsets(train) : BaseSet_getitem(key, off)

Spec == Init /\ [][Next]_vars

(***************************************************************************)
(* SpecFold: the polygon adapter over every annotation list, read with     *)
(* the keys of [0, len).                                                   *)
(***************************************************************************)
InitFold ==
    /\ \E anns \in AnnLists : InitCoco(anns, TRUE)
    /\ IdleEnc /\ IdleLoss

NextFold ==
    \/ \E key \in 0..(Length - 1) : COCODataset_get_raw_data(key)
    \/ COCODataset_len

SpecFold == InitFold /\ [][NextFold]_vars

(***************************************************************************)
(* SpecMap: the constructors of the polygon and flat-file adapters over    *)
(* every category list and allow-list.                                     *)
(***************************************************************************)
MaxCats == 3        \* categories in the store / rows in the class manifest

CatNames == {"cup", "bed", "dog"}

NameLists == UNION { [1..n -> CatNames] : n \in 0..MaxCats }

\* Native category ids: distinct, and not in the order of the positions.
NativeId(i) == 90 - 3 * i

CocoCatsOf(names) == [i \in 1..Len(names) |-> [id |-> NativeId(i), name |-> names[i]]]

AdeClassDescOf(names) == <<AdeHeader>> \o [i \in 1..Len(names) |-> AdeRow(i, names[i])]

\* Annotation grids holding consecutive row numbers from v on.
RampGrid(v) == [p \in Pixels |-> (v + p - 1) % (MaxCats + 2)]

Unconstructed ==
    /\ img_ids = <<>> /\ class_map = EmptyMap
    /\ img_path_list = <<>> /\ seg_path_list = <<>>
    /\ scenario_list = <<>> /\ dataset_size = 0
    /\ phase = "new" /\ ret = NoRet

Assign(f) ==
    /\ img_ids' = f.img_ids /\ class_map' = f.class_map
    /\ img_path_list' = f.img_path_list /\ seg_path_list' = f.seg_path_list
    /\ scenario_list' = f.scenario_list /\ dataset_size' = f.dataset_size
    /\ phase' = "ready"

\* COCODataset(params, train)
COCODataset_new ==
    /\ adapter = "coco" /\ phase = "new"
    /\ Assign(COCODataset_init(coco, classes))
    /\ UNCHANGED <<adapter, train, classes, coco, disk, ret>>
    /\ UNCHANGED <<varsEnc, varsLoss>>

\* ADE20KDataset(params, train)
ADE20KDataset_new ==
    /\ adapter = "ade" /\ phase = "new"
    /\ Assign(ADE20KDataset_init(disk, classes, train))
    /\ UNCHANGED <<adapter, train, classes, coco, disk, ret>>
    /\ UNCHANGED <<varsEnc, varsLoss>>

InitMap ==
    /\ \E names \in NameLists, cls \in SUBSET CatNames :
         /\ classes = cls /\ train = TRUE
         /\ \/ /\ adapter = "coco"
               /\ coco = CocoStore(CocoCatsOf(names), <<>>) /\ disk = NoDisk
            \/ /\ adapter = "ade"
               /\ coco = NoCoco
               /\ \E v \in 0..(MaxCats + 1) :
                    disk = AdeDisk(AdeClassDescOf(names), RampGrid(v))
    /\ Unconstructed
    /\ IdleEnc /\ IdleLoss

NextMap ==
    \/ COCODataset_new
    \/ ADE20KDataset_new
    \/ \E key \in KeysOf(Length) : COCODataset_get_raw_data(key)
    \/ \E key \in KeysOf(Length) : ADE20KDataset_get_raw_data(key)

SpecMap == InitMap /\ [][NextMap]_vars

(***************************************************************************)
(* SpecEnc: SegEncoder over every small class grid.                        *)
(***************************************************************************)
MaxGrid == 4        \* pixels of the encoded grid (width * height)

GridShapes == { <<w, h>> \in (1..MaxGrid) \X (1..MaxGrid) : w * h <= MaxGrid }

ByteVals == 0..3

EncClassSets == { {"wall"}, {"wall", "floor, flooring"} }

PilImage(shape, bytes) == [size |-> shape, bands |-> 1, bytes |-> bytes]

NoObject ==
    /\ adapter = "none" /\ train = FALSE
    /\ coco = NoCoco /\ disk = NoDisk
    /\ img_ids = <<>> /\ class_map = EmptyMap
    /\ img_path_list = <<>> /\ seg_path_list = <<>>
    /\ scenario_list = <<>> /\ dataset_size = 0
    /\ phase = "none" /\ ret = NoRet

InitEnc ==
    /\ NoObject
    /\ classes \in EncClassSets
    /\ \E shape \in GridShapes, valid \in {0, 1} :
         \E bytes \in [1..(shape[1] * shape[2]) -> ByteVals] :
            data_dict = [image     |-> [src |-> "img", ops |-> <<"ToTensor">>],
                         seg_mask  |-> PilImage(shape, bytes),
                         loss_mask |-> PilImage(shape,
                                         [i \in 1..(shape[1] * shape[2]) |-> valid])]
    /\ enc_data = NoEnc
    /\ IdleLoss

\* encoder(data_dict) of an encoder built as SegEncoder(len(classes))
SegEncoder_encode ==
    /\ enc_data' = SegEncoder_call(Cardinality(classes), data_dict)
    /\ UNCHANGED <<data_dict, varsData, varsLoss>>

NextEnc == SegEncoder_encode

SpecEnc == InitEnc /\ [][NextEnc]_vars

(***************************************************************************)
(* FocalLoss.  Floating-point values are exact fractions n/d (d > 0) or    *)
(* one of the non-finite values; tensors are indexed [channel][column]     *)
(* (one batch entry, one row).                                             *)
(***************************************************************************)
Fin(n, d) == [k |-> "fin", n |-> n, d |-> d]
NaN    == [k |-> "nan", n |-> 0, d |-> 1]
PosInf == [k |-> "inf", n |-> 1, d |-> 1]
NegInf == [k |-> "inf", n |-> -1, d |-> 1]

RECURSIVE GCD(_, _)
GCD(a, b) == IF b = 0 THEN a ELSE GCD(b, a % b)

Abs(x) == IF x < 0 THEN -x ELSE x

Reduce(n, d) == LET g == GCD(Abs(n), d) IN Fin(n \div g, d \div g)

Sign(x) == IF x.n > 0 THEN 1 ELSE IF x.n < 0 THEN -1 ELSE 0

\* Faulty variant: a division that yields 0 when the divisor is 0.
FDiv_guarded(a, b) ==
    IF a.k # "fin" \/ b.k # "fin" THEN NaN
    ELSE IF b.n = 0 THEN Fin(0, 1)
    ELSE Reduce(a.n * b.d * (IF b.n < 0 THEN -1 ELSE 1), a.d * Abs(b.n))

\* IEEE division: x/0 is NaN for x = 0 and an infinity otherwise.
FDiv(a, b) ==
    IF a.k = "nan" \/ b.k = "nan" THEN NaN
    ELSE IF a.k = "inf" THEN (IF b.k = "inf" THEN NaN
                              ELSE IF Sign(a) * Sign(b) < 0 THEN NegInf ELSE PosInf)
    ELSE IF b.k = "inf" THEN Fin(0, 1)
    ELSE IF b.n = 0 THEN (IF a.n = 0 THEN NaN
                          ELSE IF a.n > 0 THEN PosInf ELSE NegInf)
    ELSE Reduce(a.n * b.d * (IF b.n < 0 THEN -1 ELSE 1), a.d * Abs(b.n))

FMul(a, b) ==
    IF a.k = "nan" \/ b.k = "nan" THEN NaN
    ELSE IF a.k = "inf" \/ b.k = "inf"
    THEN (IF Sign(a) * Sign(b) = 0 THEN NaN
          ELSE IF Sign(a) * Sign(b) < 0 THEN NegInf ELSE PosInf)
    ELSE Reduce(a.n * b.n, a.d * b.d)

FAdd(a, b) ==
    IF a.k = "nan" \/ b.k = "nan" THEN NaN
    ELSE IF a.k = "inf" THEN (IF b.k = "inf" /\ Sign(a) # Sign(b) THEN NaN ELSE a)
    ELSE IF b.k = "inf" THEN b
    ELSE LET l == (a.d \div GCD(a.d, b.d)) * b.d
         IN Reduce(a.n * (l \div a.d) + b.n * (l \div b.d), l)

RECURSIVE FSum(_)
FSum(q) == IF q = <<>> THEN Fin(0, 1) ELSE FAdd(Head(q), FSum(Tail(q)))

\* FocalLoss.DEFAULT_PARAMS: alpha = .25 (in quarters), gamma = 2.
alpha4 == 1
gamma  == 2

\* pt = output*target + (1-output)*(1-target), output in quarters.
Pt4(o, t) == o * t + (4 - o) * (1 - t)

\* -torch.log(pt) after pt = torch.clamp(pt, eps, 1-eps) with eps = 1e-6, in
\* hundredths (rounded), for pt given in quarters: pt = 0 is clamped to eps
\* (-log = 13.82) and pt = 1 to 1-eps (-log = 0.00).
NegLog100(pt4) ==
    CASE pt4 = 0 -> 1382
      [] pt4 = 1 -> 139
      [] pt4 = 2 -> 69
      [] pt4 = 3 -> 29
      [] pt4 = 4 -> 0

\* at = alpha*target + (1-alpha)*(1-target), in quarters.
At4(t) == alpha4 * t + (4 - alpha4) * (1 - t)

\* The per-element loss -at * torch.pow(1-pt, gamma) * torch.log(pt): its
\* numerator and its denominator.
ElemLossNum(o, t) == At4(t) * ((4 - Pt4(o, t)) ^ gamma) * NegLog100(Pt4(o, t))

ElemLossDen == 4 * (4 ^ gamma) * 100

ElemLoss(o, t) == Fin(ElemLossNum(o, t), ElemLossDen)

\* F.interpolate(x, size) in its default nearest mode, along the columns.
interpolate(x, wo) ==
    [c \in DOMAIN x |-> [j \in 1..wo |-> x[c][(((j - 1) * Len(x[c])) \div wo) + 1]]]

\* Faulty variant: the mask is used as given, not inverted.
ValMask_noinvert(m) == m

\* val_mask = (1 - inv_mask)
ValMask(m) == [c \in DOMAIN m |-> [j \in DOMAIN m[c] |-> 1 - m[c][j]]]

\* val_mask.sum()
TensorSum(x) == SeqSum([c \in DOMAIN x |-> SeqSum(x[c])])

\* Element [c][j] of a tensor broadcast over the channels of another.
Broadcast(x, c, j) == IF Len(x) = 1 THEN x[1][j] ELSE x[c][j]

Shape(x) == <<Len(x), Len(x[1])>>

\* FocalLoss.forward
FocalLoss_forward(out, tgt, inv) ==
    LET differ == Shape(out) # Shape(tgt)
        tgt2 == IF differ THEN interpolate(tgt, Len(out[1])) ELSE tgt
        inv2 == IF differ THEN interpolate(inv, Len(out[1])) ELSE inv
        val_mask == ValMask(inv2)
        total == Fin(TensorSum(val_mask), 1)
        weighted == [c \in DOMAIN out |-> [j \in DOMAIN out[c] |->
                        FMul(ElemLoss(out[c][j], tgt2[c][j]),
                             FDiv(Fin(Broadcast(val_mask, c, j), 1), total))]]
    IN [outcome |-> "returned",
        value |-> FSum([c \in DOMAIN weighted |-> FSum(weighted[c])])]

\* loss_fn(output, target, inv_mask)
FocalLoss_call ==
    /\ loss' = FocalLoss_forward(output, target, inv_mask)
    /\ UNCHANGED <<output, target, inv_mask, varsData, varsEnc>>

(***************************************************************************)
(* SpecLoss: the focal loss over every small output, target and mask.      *)
(***************************************************************************)
MaxElems == 4       \* elements of the output (channels * columns)

OutVals == {1, 4}   \* model outputs, in quarters

Tensors(n, w, vals) == [1..n -> [1..w -> vals]]

LossShapes ==
    { sh \in (1..MaxElems) \X (1..MaxElems) \X (1..MaxElems) :
        sh[1] * sh[2] <= MaxElems /\ sh[1] * sh[3] <= MaxElems }

InitLoss ==
    /\ NoObject /\ classes = {}
    /\ IdleEnc
    /\ \E sh \in LossShapes : \E m \in {1, sh[1]} :
         /\ output \in Tensors(sh[1], sh[2], OutVals)
         /\ target \in Tensors(sh[1], sh[3], {0, 1})
         /\ inv_mask \in Tensors(m, sh[3], {0, 1})
    /\ loss = NoLoss

NextLoss == FocalLoss_call

SpecLoss == InitLoss /\ [][NextLoss]_vars

(***************************************************************************)
(* Properties of the polygon adapter (SpecFold).                           *)
(***************************************************************************)
SetMax(S) == CHOOSE x \in S : \A y \in S : y <= x

SeqRange(q) == { q[i] : i \in 1..Len(q) }

\* The annotations of an image, as a set: no order left.
AnnSet(img_id) ==
    IF img_id \in DOMAIN coco.imgToAnns THEN SeqRange(coco.imgToAnns[img_id]) ELSE {}

Excluding(a) == a.iscrowd = 1 \/ a.area < min_area

Labelling(a) == ~Excluding(a) /\ a.category_id \in DOMAIN class_map

CocoReturned == adapter = "coco" /\ ret.op = "get_raw_data" /\ ret.outcome = "ok"

\* C1: every pixel of the polygon adapter's seg_mask is the maximum mapped
\* class id over the non-crowd, large-enough, mapped annotations covering it
\* (0 when there is none), whatever the order of the annotation list; class
\* ids 2 and 5 overlapping give 5; during the loop a pixel's class id never
\* decreases.
C1_PixelPriority ==
    CocoReturned =>
        LET anns == AnnSet(ret.data.image.src)
            covering(p) == { a \in anns : Labelling(a) /\ a.mask[p] = 1 }
        IN /\ \A p \in Pixels :
                ret.data.seg_mask[p] =
                    SetMax({0} \cup { class_map[a.category_id] : a \in covering(p) })
           /\ \A p \in Pixels :
                (\E a, b \in covering(p) :
                    class_map[a.category_id] = 2 /\ class_map[b.category_id] = 5)
                => ret.data.seg_mask[p] = 5
           /\ \A i \in 1..(Len(ret.trace) - 1) : \A p \in Pixels :
                ret.trace[i + 1].seg_mask[p] >= ret.trace[i].seg_mask[p]

\* Class id 5 painted first, class id 2 painted over it second: 5 stays.
C1_Witness ==
    /\ CocoReturned
    /\ ret.data.image.src \in DOMAIN coco.imgToAnns
    /\ LET l == coco.imgToAnns[ret.data.image.src] IN
         /\ Len(l) = 2
         /\ Labelling(l[1]) /\ Labelling(l[2])
         /\ class_map[l[1].category_id] = 5 /\ class_map[l[2].category_id] = 2
         /\ \E p \in Pixels :
              l[1].mask[p] = 1 /\ l[2].mask[p] = 1 /\ ret.data.seg_mask[p] = 5

\* C4: the validity mask starts all 1; after the loop a pixel is 0 exactly
\* when a crowd or sub-threshold annotation covers it, whatever the order and
\* whatever valid-class annotations cover it too; a pixel that became 0
\* during the loop stays 0.
C4_ExclusionMonotone ==
    CocoReturned =>
        LET anns == AnnSet(ret.data.image.src) IN
        /\ \A p \in Pixels : ret.trace[1].loss_mask[p] = 1
        /\ \A p \in Pixels :
             /\ ret.data.loss_mask[p] \in {0, 1}
             /\ ret.data.loss_mask[p] = 0
                  <=> \E a \in anns : Excluding(a) /\ a.mask[p] = 1
        /\ \A i \in 1..(Len(ret.trace) - 1) : \A p \in Pixels :
             ret.trace[i].loss_mask[p] = 0 => ret.trace[i + 1].loss_mask[p] = 0

\* A valid-class annotation first, an excluding one over the same pixel next.
C4_Witness ==
    /\ CocoReturned
    /\ ret.data.image.src \in DOMAIN coco.imgToAnns
    /\ LET l == coco.imgToAnns[ret.data.image.src] IN
         /\ Len(l) = 2
         /\ Labelling(l[1]) /\ Excluding(l[2])
         /\ \E p \in Pixels :
              /\ l[1].mask[p] = 1 /\ l[2].mask[p] = 1
              /\ ret.data.loss_mask[p] = 0 /\ ret.data.seg_mask[p] > 0

(***************************************************************************)
(* Properties of the three adapters behind BaseSet (Spec).                 *)
(***************************************************************************)

\* C3: get_raw_data of every adapter returns seg_mask entries in
\* [0, num_classes] and loss_mask entries in {0, 1}.
C3_RawSampleRange ==
    (ret.op = "get_raw_data" /\ ret.outcome = "ok") =>
        \A p \in Pixels :
            /\ ret.data.seg_mask[p] \in 0..Cardinality(classes)
            /\ ret.data.loss_mask[p] \in {0, 1}

\* The dataset index of whichever adapter the object is.
Index == IF adapter = "coco" THEN coco.imgs ELSE img_path_list

Looked == ret.op \in {"get_raw_data", "sample"}

\* C7 as claimed: get_raw_data(key) and sample(key) with a key outside
\* [0, length()) fail with IndexError and return no sample.
C7_KeyRange ==
    (Looked /\ ~(0 <= ret.key /\ ret.key < Length)) =>
        (ret.outcome = "IndexError" /\ ret.data = NoData)

\* C7 as amended: the call fails with IndexError, returning no sample,
\* exactly when key >= length() or key < -length(); a key in
\* [-length(), -1] is served as key + length().
C7_KeyRangePython ==
    Looked =>
        /\ ret.outcome = "IndexError" <=> (ret.key >= Length \/ ret.key < -Length)
        /\ ret.outcome = "IndexError" => ret.data = NoData
        /\ ret.outcome # "IndexError" =>
             /\ ret.outcome = "ok"
             /\ ret.data.image.src =
                  Index[(IF ret.key < 0 THEN ret.key + Length ELSE ret.key) + 1]

C7_Witness ==
    /\ Looked /\ ret.key = -1 /\ ret.outcome = "ok"
    /\ ret.data.image.src = Index[Length]

HasOp(image, name) == \E i \in 1..Len(image.ops) : image.ops[i] = name

\* C9: in sample(key), after the crop only the image is transformed, in
\* training mode by color jitter plus the stochastic augmentor and in
\* evaluation mode by the tensor conversion only; the masks given to the
\* encoder are those of the crop.
C9_ImageOnlyAugment ==
    (ret.op = "sample" /\ ret.outcome = "ok") =>
        /\ ret.aug.seg_mask = ret.crop.seg_mask
        /\ ret.aug.loss_mask = ret.crop.loss_mask
        /\ train => /\ HasOp(ret.aug.image, "ColorJitter")
                    /\ HasOp(ret.aug.image, "ImageAugmentor")
        /\ ~train => ret.aug.image.ops = Append(ret.crop.image.ops, "ToTensor")

CoIndexed ==
    /\ Len(img_path_list) = Len(seg_path_list)
    /\ adapter = "coco" => Len(img_ids) = Length
    /\ adapter # "coco" => Len(img_path_list) = Length

\* C10: no call of length(), get_raw_data(key) or sample(key), failing or
\* not, changes the class map, the dataset index or length(); the path
\* lists stay of equal length; a repeated get_raw_data(key) reads the same
\* image reference.
C10_Immutable ==
    /\ [](phase = "ready" => CoIndexed)
    /\ [][ /\ class_map' = class_map
           /\ img_ids' = img_ids
           /\ img_path_list' = img_path_list
           /\ seg_path_list' = seg_path_list
           /\ Length' = Length
           /\ (ret.op = "get_raw_data" /\ ret.outcome = "ok"
                 /\ ret'.op = "get_raw_data" /\ ret'.key = ret.key)
              => (ret'.outcome = "ok" /\ ret'.data.image = ret.data.image) ]_vars

\* The annotation store did change (the second image's annotation list was
\* created by the read) and a call has failed or returned.
C10_Witness ==
    /\ adapter = "coco" /\ ret.op = "get_raw_data" /\ ret.outcome = "ok"
    /\ CocoImgs[2] \in DOMAIN coco.imgToAnns
    /\ img_ids = CocoImgs /\ class_map # EmptyMap /\ Length = Len(CocoImgs)

(***************************************************************************)
(* Properties of the class maps (SpecMap).                                 *)
(***************************************************************************)

\* The category list in iteration order: names and native identifiers.
NumCats == IF adapter = "coco" THEN Len(coco.cats) ELSE Len(disk.class_desc) - 1

CatName(i) ==
    IF adapter = "coco" THEN coco.cats[i].name
    ELSE disk.class_desc[i + 1][Len(AdeHeader)]

CatNative(i) == IF adapter = "coco" THEN coco.cats[i].id ELSE i

Listed == { i \in 1..NumCats : CatName(i) \in classes }

Rank(i) == Cardinality({ j \in Listed : j <= i })

MapBuilt == phase = "ready" /\ adapter \in {"coco", "ade"}

ClassMapShape ==
    /\ DOMAIN class_map = { CatNative(i) : i \in Listed }
    /\ \A i \in Listed : class_map[CatNative(i)] = Rank(i)
    /\ \A a, b \in DOMAIN class_map : a # b => class_map[a] # class_map[b]
    /\ adapter = "ade" =>
         /\ \A v \in 0..(NumCats + 1) :
              (v \notin 1..NumCats \/ CatName(v) \notin classes)
              => map_func(class_map, v) = 0
         /\ (ret.op = "get_raw_data" /\ ret.outcome = "ok") =>
              \A p \in Pixels :
                LET v == disk.seg[seg_path_list[
                           (IF ret.key < 0 THEN ret.key + Length ELSE ret.key) + 1]][p]
                IN (v \notin 1..NumCats \/ CatName(v) \notin classes)
                   => ret.data.seg_mask[p] = 0

\* C8 as claimed: the class map is injective, ids are 1, 2, 3, ... in
\* iteration order on exactly the allow-listed categories, flat-file grid
\* values of rows absent from the allow-list map to 0, and every id lies in
\* [1, N] with N the size of the allow-list.
C8_ClassMap ==
    MapBuilt =>
        /\ ClassMapShape
        /\ \A k \in DOMAIN class_map : class_map[k] \in 1..Cardinality(classes)

\* C8 as amended: as claimed, except that every id lies in [1, M] with M
\* the number of category entries whose name is in the allow-list; M <= N,
\* and so every id lies in [1, N], when the category names are pairwise
\* distinct.
C8_ClassMapCounted ==
    MapBuilt =>
        /\ ClassMapShape
        /\ \A k \in DOMAIN class_map : class_map[k] \in 1..Cardinality(Listed)
        /\ (\A i, j \in 1..NumCats : i # j => CatName(i) # CatName(j))
           => \A k \in DOMAIN class_map : class_map[k] \in 1..Cardinality(classes)

\* A flat-file map with two mapped rows around an unlisted one, read through
\* get_raw_data: a pixel of the unlisted row gives 0, its neighbour does not.
C8_Witness ==
    /\ MapBuilt /\ adapter = "ade"
    /\ ret.op = "get_raw_data" /\ ret.outcome = "ok"
    /\ Cardinality(Listed) >= 2 /\ Cardinality(Listed) < NumCats
    /\ \E p, q \in Pixels :
         LET g == disk.seg[seg_path_list[1]] IN
         /\ g[p] \in 1..NumCats /\ CatName(g[p]) \notin classes
         /\ ret.data.seg_mask[p] = 0
         /\ ret.data.seg_mask[q] = 2

(***************************************************************************)
(* Properties of the encoder (SpecEnc).                                    *)
(***************************************************************************)
Encoded == enc_data.seg_mask_bnhw # <<>>

\* The class id the grid holds at column x of row y.
GridAt(x, y) == data_dict.seg_mask.bytes[(y - 1) * data_dict.seg_mask.size[1] + x]

\* C2: the encoder's one-hot seg_mask has num_classes channels in ascending
\* class-id order; channel c is 1 exactly at the pixels whose class id is c;
\* pixels of id 0 have every channel 0; the sum over the channels is 0 or 1.
C2_OneHot ==
    Encoded =>
        LET N == Cardinality(classes)
            w == data_dict.seg_mask.size[1]
            h == data_dict.seg_mask.size[2]
            onehot == enc_data.seg_mask_bnhw
        IN /\ DOMAIN onehot = 1..N
           /\ \A c \in 1..N : \A y \in 1..h : \A x \in 1..w :
                onehot[c][y][x] = IF GridAt(x, y) = c THEN 1 ELSE 0
           /\ \A y \in 1..h : \A x \in 1..w :
                /\ GridAt(x, y) = 0 => \A c \in 1..N : onehot[c][y][x] = 0
                /\ SeqSum([c \in 1..N |-> onehot[c][y][x]]) \in {0, 1}

\* A 2 x 2 grid with a background pixel, a pixel of the last class and a
\* pixel beyond the classes.
C2_Witness ==
    /\ Encoded
    /\ data_dict.seg_mask.size = <<2, 2>>
    /\ Cardinality(classes) = 2
    /\ GridAt(1, 1) = 0 /\ GridAt(2, 1) = 2 /\ GridAt(1, 2) = 3
    /\ enc_data.seg_mask_bnhw[2][1][2] = 1
    /\ enc_data.seg_mask_bnhw[1][1][2] = 0

(***************************************************************************)
(* Properties of the focal loss (SpecLoss).                                *)
(***************************************************************************)
Returned == loss.outcome = "returned"

\* The target and the mask as forward uses them: resampled to the output's
\* columns when the shapes differ.
Resampled(x) ==
    IF Shape(output) # Shape(target) THEN interpolate(x, Len(output[1])) ELSE x

\* The elements of the output whose mask entry (broadcast over the
\* channels) is 0.
ValidElems ==
    { e \in (DOMAIN output) \X (1..Len(output[1])) :
        Broadcast(Resampled(inv_mask), e[1], e[2]) = 0 }

\* The entries of the mask itself that are 0.
ValidMaskEntries ==
    { e \in (DOMAIN inv_mask) \X (1..Len(output[1])) :
        Resampled(inv_mask)[e[1]][e[2]] = 0 }

\* Sum of the per-element losses of the elements of S, as a numerator over
\* ElemLossDen.
RECURSIVE LossNum(_)
LossNum(S) ==
    IF S = {} THEN 0
    ELSE LET e == CHOOSE x \in S : TRUE
         IN ElemLossNum(output[e[1]][e[2]], Resampled(target)[e[1]][e[2]])
              + LossNum(S \ {e})

\* The fraction num / (ElemLossDen * count), in lowest terms.
MeanOf(num, count) == Reduce(num, ElemLossDen * count)

\* C5 as claimed: with a valid element, the result is the sum of the
\* per-element losses of the valid elements divided by the number of valid
\* elements.
C5_MeanOverValid ==
    (Returned /\ ValidElems # {}) =>
        loss.value = MeanOf(LossNum(ValidElems), Cardinality(ValidElems))

\* C5 as amended: the result is the sum of the per-element losses of the
\* valid elements divided by val_mask.sum(), the number of valid entries of
\* inv_mask itself; that is their mean when inv_mask has the output's
\* channels, and num_channels times their mean when a single-channel
\* inv_mask is broadcast over the channels.  Only valid elements are read.
C5_SumOverValidCount ==
    (Returned /\ ValidElems # {}) =>
        /\ loss.value = MeanOf(LossNum(ValidElems), Cardinality(ValidMaskEntries))
        /\ Len(inv_mask) = Len(output) =>
             loss.value = MeanOf(LossNum(ValidElems), Cardinality(ValidElems))
        /\ Len(inv_mask) = 1 =>
             loss.value = MeanOf(Len(output) * LossNum(ValidElems),
                                 Cardinality(ValidElems))

\* Two channels under a single-channel mask with a valid and an invalid
\* column, and a non-zero loss.
C5_Witness ==
    /\ Returned
    /\ Len(output) = 2 /\ Len(inv_mask) = 1 /\ Len(output[1]) = 2
    /\ inv_mask[1] = <<0, 1>>
    /\ Shape(output) = Shape(target)
    /\ loss.value.k = "fin" /\ loss.value.n > 0

\* C6: with every element invalid the normalization divides by zero and
\* the call returns a non-finite value: it raises nothing and returns no
\* finite number.
C6_AllInvalidNonFinite ==
    (loss.outcome # "none" /\ ValidMaskEntries = {}) =>
        /\ loss.outcome = "returned"
        /\ loss.value.k # "fin"

C6_Witness ==
    /\ Returned /\ ValidMaskEntries = {}
    /\ Len(output) = 2 /\ Len(output[1]) = 2
    /\ loss.value = NaN

====
